---- MODULE Spec2Model ----
(***************************************************************************)
(* Race picker: the tournament controller (App.tsx) and the race           *)
(* simulator (RacingGame.tsx, and its lateral-drift / hazard variant).     *)
(*                                                                         *)
(* React is modelled at the granularity of a commit: a handler's state     *)
(* updates, the render they cause and the effects of that render (cleanup  *)
(* first, then the effect bodies, then the renders the effects themselves  *)
(* cause) are one step.  An animation frame is one step.                   *)
(*                                                                         *)
(* Units.  Time inside the integration is counted in 1/Scale seconds and   *)
(* distance in 1/Scale pixels, so that speed (px/s) * time = distance and  *)
(* distance / speed = time are exact integer operations for the sampled    *)
(* speeds and segment counts.  Clock readings (elapsed) are milliseconds.  *)
(***************************************************************************)
EXTENDS Integers, Sequences, FiniteSets, TLC

VARIABLES
    \* ---- App.tsx state
    entries,        \* Entry[] : the full roster, a sequence of entry ids
    eliminatedIds,  \* number[]
    winOrder,       \* Map<number, number>, a function id -> rank
    winner,         \* string | null : id of the displayed winner, or None
    showRace,       \* boolean, passed to RacingGame as isRacing
    racingMode,     \* RacingMode
    timers,         \* pending setTimeout(handleWinner(entry), 300) callbacks
    groups,         \* Group[] : the saved groups, each one its entries
    showManagementModal, \* boolean
    now,            \* the last Date.now() taken as an entry id
    names,          \* Entry.name of every entry id, a sequence of characters
    alerted,        \* the message of the alert() raised by the last step, or NoAlert
    \* ---- RacingGame state
    racers,         \* Racer[]
    raceState,      \* 'ready' | 'racing' | 'finished'
    \* ---- the closure of the race effect that is currently mounted
    racerSpeedProfiles, \* one profile (sequence of speeds) per racer
    elapsed,        \* Date.now() - startTime at the last frame, ms
    finished,       \* let finished
    hasFalling,     \* racers.some(r => r.isFalling) of the render that ran the effect
    \* ---- the browser's animation-frame queue
    rafQueue,       \* ids of requested, not yet run or cancelled, frames
    animationRef,   \* animationRef.current (0: undefined)
    \* ---- hazards of the lateral-drift variant
    obstacles,
    birds,
    drifts,         \* lateral moves drawn so far in the current race effect
    spawns,         \* hazards spawned so far in the current race effect
    \* ---- observation
    variant,        \* which RacingGame is mounted: "plain" or "hazard"
    reported,       \* entries passed to onWinner since raceState became 'racing'
    cancelled,      \* the last step's effect cleanup cancelled a pending frame
    knocks          \* the knock-outs of the last frame

vars == <<groups, showManagementModal, now, names, alerted, entries, eliminatedIds, winOrder, winner, showRace, racingMode, timers,
          racers, raceState, racerSpeedProfiles, elapsed, finished, hasFalling,
          rafQueue, animationRef, obstacles, birds, drifts, spawns, variant, reported, cancelled,
          knocks>>

\* the state behind the management dialog
dialogVars == <<groups, showManagementModal, now, names>>

appVars == <<dialogVars, entries, eliminatedIds, winOrder, winner, showRace, racingMode, timers>>

None == 0
NoAlert == ""

\* ---------------------------------------------------------------- bounds
MaxEntries == 3
MaxNow == 3         \* entry ids handed out by Date.now()
MaxGroups == 1      \* saved groups
MaxTimers == 2
MaxDrifts == 2      \* lateral moves drawn in one race
MaxSpawns == 1      \* obstacles spawned in one race
MaxElapsed == 5500  \* frames are followed up to this clock reading, ms

\* ------------------------------------------------------- program constants
FINISH_LINE == 700
START_X == 50
RACE_DURATION == 4500
TIMER_DELAY == 300
MAX_ENTRIES == 12
TRACK_LENGTH == FINISH_LINE - START_X

\* 1/Scale s and 1/Scale px: a common multiple of numChanges * speed
Scale == 2 * 3 * 4 * 600

\* the frame spacings sampled, ms (a frame is late when the tab was hidden)
TickSteps == {250, 1000}

\* the frame spacings sampled while the lateral-drift variant is mounted, ms
HazardTickSteps == {500, 1000}

RacingModes == {"car", "mixed"}

\* ------------------------------------------------------------- helpers
Range(s) == {s[i] : i \in DOMAIN s}

Min(a, b) == IF a < b THEN a ELSE b

Max(a, b) == IF a > b THEN a ELSE b

Abs(a) == IF a < 0 THEN -a ELSE a

\* allEntries.findIndex((e) => e.id === id): 0-based, -1 when absent
FindIndex(all, id) ==
    IF \E i \in DOMAIN all : all[i] = id
    THEN (CHOOSE i \in DOMAIN all : all[i] = id /\ \A j \in 1..(i - 1) : all[j] # id) - 1
    ELSE -1

\* entries.filter((e) => !eliminatedIds.includes(e.id))
activeEntries(es, elim) == SelectSeq(es, LAMBDA e : e \notin Range(elim))

\* new Map(prev).set(id, prev.size + 1)
MapSet(m, id, v) == [x \in (DOMAIN m) \cup {id} |-> IF x = id THEN v ELSE m[x]]

EmptyMap == [x \in {} |-> 0]

\* requestAnimationFrame returns an id that no pending frame carries
FreshId(q) == CHOOSE i \in 1..(Cardinality(q) + 1) : i \notin q /\ \A j \in 1..(i - 1) : j \in q

\* ------------------------------------------------------ speed profiles
\* profiles drawn from a speed range that starts below 200 px/s
ProfileSetSlow == {<<80, 200>>, <<200, 300>>, <<120, 240, 240>>}

\* The profiles sampled from "numChanges in 2..4, each speed in [200, 400)".
ProfileSet == {<<200, 200>>, <<200, 300>>, <<300, 200>>, <<240, 240, 240>>, <<300, 200, 300, 200>>}

\* the profiles sampled when the lateral-drift variant is mounted
HazardProfileSet == {<<200, 300>>, <<300, 200>>}

\* racers.map(() => ({ speeds, segmentDistance })): one draw per racer
ProfileSeqs(n) == [1..n -> IF variant = "plain" THEN ProfileSet ELSE HazardProfileSet]

\* segmentDistance: TRACK_LENGTH / numChanges, in 1/Scale px
segmentDistance(speeds, trackLength) == (trackLength * Scale) \div Len(speeds)

\* the while loop of animate: walk the segments while time remains
RECURSIVE IntegrateLoop(_, _, _, _, _)
IntegrateLoop(speeds, segDist, totalDistance, timeRemaining, segmentIndex) ==
    IF timeRemaining > 0 /\ segmentIndex < Len(speeds)
    THEN LET speed == speeds[segmentIndex + 1]
             segmentEnd == (segmentIndex + 1) * segDist
             remainingInSegment == segmentEnd - (totalDistance % (segDist * Len(speeds)))
             timeForSegment == remainingInSegment \div speed
         IN  IF timeRemaining >= timeForSegment
             THEN IntegrateLoop(speeds, segDist, totalDistance + remainingInSegment,
                                timeRemaining - timeForSegment, segmentIndex + 1)
             ELSE IntegrateLoop(speeds, segDist, totalDistance + speed * timeRemaining,
                                0, segmentIndex)
    ELSE totalDistance

\* an integration that wraps the distance around the track
IntegrateLap(speeds, ms, trackLength) ==
    IntegrateLoop(speeds, segmentDistance(speeds, trackLength), 0, (ms * Scale) \div 1000, 0)
        % (trackLength * Scale)

\* an integration that counts completed segments only
RECURSIVE WholeSegmentsLoop(_, _, _, _, _)
WholeSegmentsLoop(speeds, segDist, totalDistance, timeRemaining, segmentIndex) ==
    IF timeRemaining > 0 /\ segmentIndex < Len(speeds)
    THEN LET timeForSegment == segDist \div speeds[segmentIndex + 1]
         IN  IF timeRemaining >= timeForSegment
             THEN WholeSegmentsLoop(speeds, segDist, totalDistance + segDist,
                                    timeRemaining - timeForSegment, segmentIndex + 1)
             ELSE totalDistance
    ELSE totalDistance

IntegrateWholeSegments(speeds, ms, trackLength) ==
    WholeSegmentsLoop(speeds, segmentDistance(speeds, trackLength), 0, (ms * Scale) \div 1000, 0)

\* totalDistance after `ms` milliseconds, in 1/Scale px
Integrate(speeds, ms, trackLength) ==
    IntegrateLoop(speeds, segmentDistance(speeds, trackLength), 0, (ms * Scale) \div 1000, 0)

\* ------------------------------------------------- the vertical variant
CANVAS_WIDTH == 400
CANVAS_HEIGHT == 600
TRACK_PADDING == 30
LABEL_AREA_HEIGHT == 0
TRACK_TOP == TRACK_PADDING
TRACK_BOTTOM == CANVAS_HEIGHT - TRACK_PADDING - LABEL_AREA_HEIGHT
TRACK_HEIGHT == TRACK_BOTTOM - TRACK_TOP
FINISH_LINE_V == TRACK_TOP + 15
START_LINE == TRACK_BOTTOM - 15
TRACK_LENGTH_V == START_LINE - FINISH_LINE_V

\* lateral positions are counted in 1/LatScale lanes
LatScale == 10 * 10

\* ------------------------------------------------------------- racers
\* the racer built by the initialize-racers and start-race effects
NewRacer(v, entry, laneIndex) ==
    IF v = "plain"
    THEN [entry |-> entry, x |-> START_X * Scale, speed |-> 0, finished |-> FALSE,
          previousSpeed |-> 0, spinAngle |-> 0, totalDistance |-> 0,
          laneIndex |-> laneIndex]
    ELSE [entry |-> entry, y |-> START_LINE * Scale, finished |-> FALSE,
          totalDistance |-> 0, laneIndex |-> laneIndex,
          lateralPos |-> laneIndex * LatScale, lateralTarget |-> laneIndex * LatScale,
          lateralStartPos |-> laneIndex * LatScale, lateralStartTime |-> 0,
          lateralDuration |-> 0, knockedOut |-> FALSE, isFalling |-> FALSE,
          fallY |-> START_LINE * Scale, fallVelocity |-> 0]

\* racers laned by their position among the active entries
NewRacersByPosition(v, active, all) ==
    [i \in 1..Len(active) |-> NewRacer(v, active[i], i - 1)]

\* displayEntries.map((entry, index) => ...)
NewRacers(v, active, all) ==
    [i \in 1..Len(active) |-> NewRacer(v, active[i], Max(FindIndex(all, active[i]), 0))]

\* ------------------------------------------------------ render + effects
\* a cleanup that forgets to cancel the pending frame
CleanupNoCancel(q, ref) == q

\* the cleanup of the race effect: cancelAnimationFrame(animationRef.current)
Cleanup(q, ref) == q \ {ref}

\* a commit whose start-race effect only sets raceState
CommitStale(rs, st, q, ref, obs, bds, es, elim, isRacing, remount, rep, el, fin, ev) ==
    LET active == activeEntries(es, elim)
        fresh == NewRacers(variant, active, es)
        startNow == ~remount /\ isRacing /\ Len(rs) > 0
        abort == ~remount /\ ~isRacing /\ st = "racing"
        st2 == IF remount THEN "ready"
               ELSE IF startNow THEN "racing"
               ELSE IF abort THEN "ready" ELSE st
        reset == remount \/ st2 = "ready"
        rs2 == IF reset THEN fresh ELSE rs
        \* the render whose racers the mounted race effect closed over
        closureRacers == IF st = "racing" /\ st2 = "racing" /\ Len(rs) > 0 /\ Len(rs2) = Len(rs)
                         THEN rs ELSE rs2
        live == st2 = "racing" /\ Len(closureRacers) > 0
        q2 == Cleanup(q, ref)
    IN  /\ racers' = rs2
        /\ raceState' = st2
        /\ obstacles' = IF reset THEN <<>> ELSE obs
        /\ birds' = IF reset THEN <<>> ELSE bds
        /\ reported' = IF st2 = "racing" /\ st # "racing" THEN <<>> ELSE rep
        /\ elapsed' = IF live THEN 0 ELSE el
        /\ finished' = IF live THEN FALSE ELSE fin
        /\ drifts' = 0
        /\ spawns' = 0
        /\ variant' = variant
        /\ cancelled' = (ref \in q)
        /\ knocks' = ev
        /\ IF live
           THEN /\ racerSpeedProfiles' \in ProfileSeqs(Len(closureRacers))
                /\ hasFalling' = (variant = "hazard" /\ \E i \in DOMAIN closureRacers : closureRacers[i].isFalling)
                /\ rafQueue' = q2 \cup {FreshId(q2)}
                /\ animationRef' = FreshId(q2)
           ELSE /\ racerSpeedProfiles' = <<>>
                /\ hasFalling' = FALSE
                /\ rafQueue' = q2
                /\ animationRef' = IF remount THEN 0 ELSE ref

\* The RacingGame part of a commit caused by an App render (or by a remount
\* when the key changed).  rs, st: racers and raceState before the render;
\* q, ref: frame queue and animationRef; obs, bds: obstacles and birds;
\* rep: onWinner calls so far; el, fin:
\* what the unmounted race effect leaves in its elapsed and finished; ev: the
\* knock-outs of the frame that caused the render.
\* Every App render passes a new `entries` array and a new `onWinner`, so the
\* three effects all run again.
Commit(rs, st, q, ref, obs, bds, es, elim, isRacing, remount, rep, el, fin, ev) ==
    LET active == activeEntries(es, elim)
        fresh == NewRacers(variant, active, es)
        startNow == ~remount /\ isRacing /\ Len(rs) > 0
        abort == ~remount /\ ~isRacing /\ st = "racing"
        st2 == IF remount THEN "ready"
               ELSE IF startNow THEN "racing"
               ELSE IF abort THEN "ready" ELSE st
        reset == remount \/ startNow \/ st2 = "ready"
        rs2 == IF reset THEN fresh ELSE rs
        \* the render whose racers the mounted race effect closed over
        closureRacers == IF st = "racing" /\ st2 = "racing" /\ Len(rs) > 0 /\ Len(rs2) = Len(rs)
                         THEN rs ELSE rs2
        live == st2 = "racing" /\ Len(closureRacers) > 0
        q2 == Cleanup(q, ref)
    IN  /\ racers' = rs2
        /\ raceState' = st2
        /\ obstacles' = IF reset THEN <<>> ELSE obs
        /\ birds' = IF reset THEN <<>> ELSE bds
        /\ reported' = IF st2 = "racing" /\ st # "racing" THEN <<>> ELSE rep
        /\ elapsed' = IF live THEN 0 ELSE el
        /\ finished' = IF live THEN FALSE ELSE fin
        /\ drifts' = 0
        /\ spawns' = 0
        /\ variant' = variant
        /\ cancelled' = (ref \in q)
        /\ knocks' = ev
        /\ IF live
           THEN /\ racerSpeedProfiles' \in ProfileSeqs(Len(closureRacers))
                /\ hasFalling' = (variant = "hazard" /\ \E i \in DOMAIN closureRacers : closureRacers[i].isFalling)
                /\ rafQueue' = q2 \cup {FreshId(q2)}
                /\ animationRef' = FreshId(q2)
           ELSE /\ racerSpeedProfiles' = <<>>
                /\ hasFalling' = FALSE
                /\ rafQueue' = q2
                /\ animationRef' = IF remount THEN 0 ELSE ref

gameVars == <<racers, raceState, racerSpeedProfiles, elapsed, finished, hasFalling,
              rafQueue, animationRef, obstacles, birds, drifts, spawns, variant, reported,
              cancelled, knocks>>

\* --------------------------------------------------------------- App.tsx
\* handleWinner applied to the App state a = [eliminatedIds, winOrder, winner, showRace]
\* handleWinner without the winOrder update
handleWinnerUnranked(a, winnerEntry) ==
    [eliminatedIds |-> Append(a.eliminatedIds, winnerEntry),
     winOrder |-> a.winOrder,
     winner |-> winnerEntry,
     showRace |-> FALSE]

handleWinner(a, winnerEntry) ==
    [eliminatedIds |-> Append(a.eliminatedIds, winnerEntry),
     winOrder |-> MapSet(a.winOrder, winnerEntry, Cardinality(DOMAIN a.winOrder) + 1),
     winner |-> winnerEntry,
     showRace |-> FALSE]

AppState == [eliminatedIds |-> eliminatedIds, winOrder |-> winOrder,
             winner |-> winner, showRace |-> showRace]

RECURSIVE handleWinners(_, _)
handleWinners(a, ws) ==
    IF ws = <<>> THEN a ELSE handleWinners(handleWinner(a, Head(ws)), Tail(ws))

\* startRace without the check of activeEntries.length
startRaceUnchecked ==
    LET active == activeEntries(entries, eliminatedIds)
    IN  /\ winner' = None
        /\ alerted' = NoAlert
        /\ UNCHANGED <<dialogVars, entries, eliminatedIds, winOrder, racingMode>>
        /\ IF Len(active) = 1
           THEN /\ Len(timers) < MaxTimers
                /\ timers' = Append(timers, active[1])
                /\ showRace' = showRace
           ELSE /\ showRace' = TRUE
                /\ timers' = timers
        /\ IF winner' # winner \/ showRace' # showRace
           THEN Commit(racers, raceState, rafQueue, animationRef, obstacles, birds, entries, eliminatedIds,
                       showRace', FALSE, reported, 0, FALSE, {})
           ELSE UNCHANGED gameVars

\* startRace as the handler runs it; the button that calls it is rendered while
\* activeEntries.length >= 1
startRace ==
    LET active == activeEntries(entries, eliminatedIds)
    IN  IF Len(active) < 1
        THEN /\ alerted' = "Add at least 1 participant to start a race!"
             /\ UNCHANGED <<appVars, gameVars>>
        ELSE /\ winner' = None
             /\ alerted' = NoAlert
             /\ UNCHANGED <<dialogVars, entries, eliminatedIds, winOrder, racingMode>>
             /\ IF Len(active) = 1
                THEN /\ Len(timers) < MaxTimers
                     /\ timers' = Append(timers, active[1])
                     /\ showRace' = showRace
                ELSE /\ showRace' = TRUE
                     /\ timers' = timers
             /\ IF winner' # winner \/ showRace' # showRace
                THEN Commit(racers, raceState, rafQueue, animationRef, obstacles, birds, entries, eliminatedIds,
                            showRace', FALSE, reported, 0, FALSE, {})
                ELSE UNCHANGED gameVars

handleRaceComplete ==
    LET active == activeEntries(entries, eliminatedIds)
    IN  /\ winner # None /\ ~showRace /\ Len(active) # 0
        /\ winner' = None
        /\ alerted' = NoAlert
        /\ UNCHANGED <<dialogVars, entries, eliminatedIds, winOrder, racingMode>>
        /\ IF Len(active) = 1
           THEN /\ Len(timers) < MaxTimers
                /\ timers' = Append(timers, active[1])
                /\ showRace' = showRace
           ELSE /\ showRace' = TRUE
                /\ timers' = timers
        /\ Commit(racers, raceState, rafQueue, animationRef, obstacles, birds, entries, eliminatedIds,
                  showRace', FALSE, reported, 0, FALSE, {})

resetRace ==
    /\ Len(eliminatedIds) > 0
    /\ eliminatedIds' = <<>>
    /\ winOrder' = EmptyMap
    /\ winner' = None
    /\ showRace' = FALSE
    /\ alerted' = NoAlert
    /\ UNCHANGED <<dialogVars, entries, racingMode, timers>>
    /\ Commit(racers, raceState, rafQueue, animationRef, obstacles, birds, entries, <<>>, FALSE, TRUE, reported, 0, FALSE, {})

setRacingMode ==
    /\ \E m \in RacingModes : m # racingMode /\ racingMode' = m
    /\ alerted' = NoAlert
    /\ UNCHANGED <<dialogVars, entries, eliminatedIds, winOrder, winner, showRace, timers>>
    /\ Commit(racers, raceState, rafQueue, animationRef, obstacles, birds, entries, eliminatedIds,
              showRace, FALSE, reported, 0, FALSE, {})

\* the callback of setTimeout(() => handleWinner(activeEntries[0]), 300)
timerFires ==
    /\ timers # <<>>
    /\ LET a == handleWinner(AppState, Head(timers))
       IN  /\ eliminatedIds' = a.eliminatedIds
           /\ winOrder' = a.winOrder
           /\ winner' = a.winner
           /\ showRace' = a.showRace
           /\ Commit(racers, raceState, rafQueue, animationRef, obstacles, birds, entries, a.eliminatedIds,
                     FALSE, FALSE, reported, 0, FALSE, {})
    /\ timers' = Tail(timers)
    /\ alerted' = NoAlert
    /\ UNCHANGED <<dialogVars, entries, racingMode>>

\* ------------------------------------- App.tsx: the management dialog
\* the gear button and the dialog's close buttons; the race keeps running
\* behind the dialog
setShowManagementModal ==
    /\ showManagementModal' = ~showManagementModal
    /\ alerted' = NoAlert
    /\ UNCHANGED <<groups, now, names, entries, eliminatedIds, winOrder, winner, showRace,
                   racingMode, timers>>
    /\ Commit(racers, raceState, rafQueue, animationRef, obstacles, birds, entries, eliminatedIds,
              showRace, FALSE, reported, 0, FALSE, {})

\* handleEntriesChange: winner and showRace are kept, RacingGame is remounted
handleEntriesChange(newEntries) ==
    /\ entries' = newEntries
    /\ eliminatedIds' = SelectSeq(eliminatedIds, LAMBDA id : id \in Range(newEntries))
    /\ winOrder' = [id \in DOMAIN winOrder \cap Range(newEntries) |-> winOrder[id]]
    /\ alerted' = NoAlert
    /\ UNCHANGED <<groups, showManagementModal, winner, showRace, racingMode, timers>>
    /\ Commit(racers, raceState, rafQueue, animationRef, obstacles, birds, newEntries, eliminatedIds',
              showRace, TRUE, reported, 0, FALSE, {})

\* String.prototype.trim on a sequence of characters
RECURSIVE TrimStart(_)
TrimStart(str) == IF str # <<>> /\ Head(str) = " " THEN TrimStart(Tail(str)) ELSE str

RECURSIVE TrimEnd(_)
TrimEnd(str) ==
    IF str # <<>> /\ str[Len(str)] = " " THEN TrimEnd(SubSeq(str, 1, Len(str) - 1)) ELSE str

Trim(str) == TrimEnd(TrimStart(str))

\* what is typed into the name field
Inputs == {<<>>, <<" ">>, <<" ", "a">>, <<"a", " ">>}

\* the Date.now() readings that are followed: ids up to MaxNow, and for a
\* roster at the limit of MAX_ENTRIES one id past the limit
MayAdd == now < MaxNow \/ (Len(entries) >= MAX_ENTRIES - 1 /\ now <= MAX_ENTRIES)

\* addEntry without the check of entries.length
addEntryUnlimited ==
    /\ showManagementModal
    /\ MayAdd
    /\ \E input \in Inputs :
          /\ Trim(input) # <<>>
          /\ now' = now + 1
          /\ names' = [id \in DOMAIN names \cup {now'} |->
                          IF id = now' THEN Trim(input) ELSE names[id]]
          /\ handleEntriesChange(Append(entries, now'))

\* EntryManager.addEntry; a blank input or a full roster leaves everything as
\* it is
addEntry ==
    /\ showManagementModal
    /\ MayAdd
    /\ \E input \in Inputs :
          /\ Trim(input) # <<>> /\ Len(entries) < MAX_ENTRIES
          /\ now' = now + 1
          /\ names' = [id \in DOMAIN names \cup {now'} |->
                          IF id = now' THEN Trim(input) ELSE names[id]]
          /\ handleEntriesChange(Append(entries, now'))

\* EntryManager.removeEntry
\* the entries whose remove button is pressed: the first MaxEntries of the
\* list and the last one
RemovalPicks(es) == {es[i] : i \in {k \in DOMAIN es : k <= MaxEntries \/ k = Len(es)}}

removeEntry ==
    /\ showManagementModal
    /\ UNCHANGED <<now, names>>
    /\ \E id \in RemovalPicks(entries) :
          handleEntriesChange(SelectSeq(entries, LAMBDA e : e # id))

\* resetAllEntries, confirmed
resetAllEntries ==
    /\ showManagementModal
    /\ entries' = <<>>
    /\ eliminatedIds' = <<>>
    /\ winOrder' = EmptyMap
    /\ winner' = None
    /\ showRace' = FALSE
    /\ alerted' = NoAlert
    /\ UNCHANGED <<dialogVars, racingMode, timers>>
    /\ Commit(racers, raceState, rafQueue, animationRef, obstacles, birds, <<>>, <<>>,
              FALSE, FALSE, reported, 0, FALSE, {})

saveGroup ==
    /\ showManagementModal
    /\ Len(entries) # 0
    /\ Len(groups) < MaxGroups
    /\ groups' = Append(groups, entries)
    /\ alerted' = "Group saved successfully!"
    /\ UNCHANGED <<showManagementModal, now, names, entries, eliminatedIds, winOrder, winner,
                   showRace, racingMode, timers>>
    /\ Commit(racers, raceState, rafQueue, animationRef, obstacles, birds, entries, eliminatedIds,
              showRace, FALSE, reported, 0, FALSE, {})

loadGroup ==
    /\ showManagementModal
    /\ \E g \in DOMAIN groups :
          /\ entries' = groups[g]
          /\ Commit(racers, raceState, rafQueue, animationRef, obstacles, birds, groups[g], <<>>,
                    FALSE, FALSE, reported, 0, FALSE, {})
    /\ eliminatedIds' = <<>>
    /\ winOrder' = EmptyMap
    /\ winner' = None
    /\ showRace' = FALSE
    /\ alerted' = NoAlert
    /\ UNCHANGED <<dialogVars, racingMode, timers>>

\* deleteGroup, confirmed
deleteGroup ==
    /\ showManagementModal
    /\ \E g \in DOMAIN groups :
          groups' = SubSeq(groups, 1, g - 1) \o SubSeq(groups, g + 1, Len(groups))
    /\ alerted' = NoAlert
    /\ UNCHANGED <<showManagementModal, now, names, entries, eliminatedIds, winOrder, winner,
                   showRace, racingMode, timers>>
    /\ Commit(racers, raceState, rafQueue, animationRef, obstacles, birds, entries, eliminatedIds,
              showRace, FALSE, reported, 0, FALSE, {})

\* ------------------------------------------------- RacingGame.tsx: animate
\* React may run an updater function once, or twice (StrictMode)
UpdaterRuns == {1, 2}

\* prevRacers.map((racer, idx) => ...) for one racer
\* the sign of a number; spinAngle is kept as its sign
Sign(v) == IF v > 0 THEN 1 ELSE IF v < 0 THEN -1 ELSE 0

\* the draws (Math.random() - 0.5) * 0.4 of the spin wobble, by sign
WobbleDraws == {1}

\* the speed of the segment the racer is in
CurrentSpeed(speeds, totalDistance) ==
    LET currentSegment == totalDistance \div segmentDistance(speeds, TRACK_LENGTH)
    IN  speeds[Min(currentSegment, Len(speeds) - 1) + 1]

\* an update whose position gives way while the vehicle spins
UpdatePlainSpinDrag(racer, speeds, ms, wobble) ==
    LET totalDistance == Integrate(speeds, ms, TRACK_LENGTH)
        x == Min(START_X * Scale + totalDistance - Abs(racer.spinAngle) * Scale, FINISH_LINE * Scale)
        isFinished == x >= FINISH_LINE * Scale
        currentSpeed == CurrentSpeed(speeds, totalDistance)
        prevSpeed == IF racer.previousSpeed # 0 THEN racer.previousSpeed ELSE currentSpeed
    IN  [racer EXCEPT !.x = x, !.totalDistance = totalDistance, !.speed = currentSpeed,
                      !.previousSpeed = currentSpeed,
                      !.spinAngle = IF prevSpeed - currentSpeed > 20
                                    THEN Sign(racer.spinAngle + wobble)
                                    ELSE racer.spinAngle,
                      !.finished = isFinished]

\* the callback of prevRacers.map in animate
UpdatePlain(racer, speeds, ms, wobble) ==
    LET totalDistance == Integrate(speeds, ms, TRACK_LENGTH)
        x == Min(START_X * Scale + totalDistance, FINISH_LINE * Scale)
        isFinished == x >= FINISH_LINE * Scale
        currentSpeed == CurrentSpeed(speeds, totalDistance)
        prevSpeed == IF racer.previousSpeed # 0 THEN racer.previousSpeed ELSE currentSpeed
    IN  [racer EXCEPT !.x = x, !.totalDistance = totalDistance, !.speed = currentSpeed,
                      !.previousSpeed = currentSpeed,
                      !.spinAngle = IF prevSpeed - currentSpeed > 20
                                    THEN Sign(racer.spinAngle + wobble)
                                    ELSE racer.spinAngle,
                      !.finished = isFinished]

\* finishers.reduce((prev, current) => current.totalDistance > prev.totalDistance ? current : prev)
RECURSIVE ReduceFarthest(_, _)
ReduceFarthest(prev, rest) ==
    IF rest = <<>> THEN prev
    ELSE ReduceFarthest(IF Head(rest).totalDistance > prev.totalDistance THEN Head(rest) ELSE prev,
                        Tail(rest))

\* a winner pass that reports only a racer that finished alone
WinnerPassSole(updated, fin) ==
    LET finishers == SelectSeq(updated, LAMBDA r : r.finished)
    IN  IF ~fin /\ Len(finishers) = 1
        THEN [calls |-> <<Head(finishers).entry>>, finished |-> TRUE]
        ELSE [calls |-> <<>>, finished |-> fin]

\* a winner pass without the `if (!finished)` guard
WinnerPassUnguarded(updated, fin) ==
    LET finishers == SelectSeq(updated, LAMBDA r : r.finished)
    IN  IF Len(finishers) > 0
        THEN [calls |-> <<ReduceFarthest(Head(finishers), Tail(finishers)).entry>>, finished |-> TRUE]
        ELSE [calls |-> <<>>, finished |-> fin]

\* "Check if anyone finished": the onWinner calls of one run of the updater
\* and the value it leaves in `finished`
WinnerPass(updated, fin) ==
    LET finishers == SelectSeq(updated, LAMBDA r : r.finished)
    IN  IF ~fin /\ Len(finishers) > 0
        THEN [calls |-> <<ReduceFarthest(Head(finishers), Tail(finishers)).entry>>, finished |-> TRUE]
        ELSE [calls |-> <<>>, finished |-> fin]

\* the runs of the updater of one frame
UpdaterPasses(updated, fin, runs) ==
    LET pass1 == WinnerPass(updated, fin)
        pass2 == WinnerPass(updated, pass1.finished)
    IN  IF runs = 1 THEN pass1
        ELSE [calls |-> pass1.calls \o pass2.calls, finished |-> pass2.finished]

\* what a frame does after the racers are updated: onWinner and the commit
\* it causes, or the next requestAnimationFrame
AfterUpdate(updated, ms, pass, again, obs, bds, dr, sp, ev) ==
    LET q1 == rafQueue \ {animationRef}
    IN  IF pass.calls # <<>>
        THEN LET a == handleWinners(AppState, pass.calls)
             IN  /\ eliminatedIds' = a.eliminatedIds
                 /\ winOrder' = a.winOrder
                 /\ winner' = a.winner
                 /\ showRace' = a.showRace
                 /\ alerted' = NoAlert
                 /\ UNCHANGED <<dialogVars, entries, racingMode, timers>>
                 /\ Commit(updated, "finished", q1, animationRef, obs, bds, entries, a.eliminatedIds,
                           a.showRace, FALSE, reported \o pass.calls, ms, pass.finished, ev)
        ELSE /\ racers' = updated
             /\ elapsed' = ms
             /\ finished' = pass.finished
             /\ rafQueue' = IF again THEN q1 \cup {FreshId(q1)} ELSE q1
             /\ animationRef' = IF again THEN FreshId(q1) ELSE animationRef
             /\ obstacles' = obs
             /\ birds' = bds
             /\ drifts' = dr
             /\ spawns' = sp
             /\ cancelled' = FALSE
             /\ knocks' = ev
             /\ alerted' = NoAlert
             /\ UNCHANGED <<appVars, raceState, racerSpeedProfiles, hasFalling, variant, reported>>

\* A callback of setTimeout(..., 300) runs 300 ms after it was set: a frame
\* whose clock reads more than that since the race started cannot run while
\* a callback set before the start is still pending.
FrameBeforeTimer(ms) == timers = <<>> \/ ms <= TIMER_DELAY

animate ==
    /\ variant = "plain"
    /\ raceState = "racing"
    /\ animationRef \in rafQueue
    /\ \E dt \in TickSteps, runs \in UpdaterRuns, wobble \in WobbleDraws :
          LET ms == elapsed + dt
              updated == [i \in DOMAIN racers |->
                             UpdatePlain(racers[i], racerSpeedProfiles[i], ms, wobble)]
              pass == UpdaterPasses(updated, finished, runs)
          IN  /\ FrameBeforeTimer(ms)
              /\ AfterUpdate(updated, ms, pass, ~pass.finished /\ ms < RACE_DURATION,
                             obstacles, birds, drifts, spawns, {})

\* ------------------------------------- part_003: animate (hazard variant)
\* getTrackWidth(laneCount), px
getTrackWidth(laneCount) == Min((CANVAS_WIDTH * 9) \div 10, Max(200, laneCount * 22))

\* Math.max(allEntries.length, 2)
totalLanes == Max(Len(entries), 2)

\* laneWidth and trackLeft, in 1/Scale px
laneWidth == (getTrackWidth(totalLanes) * Scale) \div totalLanes

trackLeft == ((CANVAS_WIDTH - getTrackWidth(totalLanes)) * Scale) \div 2

\* trackLeft + lanePos * laneWidth + laneWidth / 2, in 1/Scale px
RacerX(r) == trackLeft + (r.lateralPos * laneWidth) \div LatScale + laneWidth \div 2

\* Math.round of a lateral position, as a lane number
RoundLane(pos) == (pos + LatScale \div 2) \div LatScale

GRAVITY == 900

\* a fall step without the Math.min(START_LINE, ...) clamp
FallStepUnclamped(racer, dt) ==
    LET currentFallY == IF racer.isFalling THEN racer.fallY ELSE START_LINE * Scale
        currentVelocity == IF racer.isFalling THEN racer.fallVelocity ELSE 0
        nextVelocity == currentVelocity + (GRAVITY * dt) \div 1000
        nextY == currentFallY + nextVelocity * ((dt * Scale) \div 1000)
        landed == nextY >= START_LINE * Scale
    IN  [racer EXCEPT !.y = nextY, !.fallY = nextY,
                      !.fallVelocity = IF landed THEN 0 ELSE nextVelocity,
                      !.isFalling = ~landed, !.totalDistance = 0, !.finished = FALSE]

\* the knockedOut branch of the updater; dt: milliseconds since the last frame
FallStep(racer, dt) ==
    LET currentFallY == IF racer.isFalling THEN racer.fallY ELSE START_LINE * Scale
        currentVelocity == IF racer.isFalling THEN racer.fallVelocity ELSE 0
        nextVelocity == currentVelocity + (GRAVITY * dt) \div 1000
        nextY == Min(START_LINE * Scale, currentFallY + nextVelocity * ((dt * Scale) \div 1000))
        landed == nextY >= START_LINE * Scale
    IN  [racer EXCEPT !.y = nextY, !.fallY = nextY,
                      !.fallVelocity = IF landed THEN 0 ELSE nextVelocity,
                      !.isFalling = ~landed, !.totalDistance = 0, !.finished = FALSE]

\* the lateral durations sampled from 350 + Math.random() * 650, ms
LateralDurations == {750}

\* lateralDuration <= 0 || elapsed - lateralStartTime >= lateralDuration
lateralFinished(racer, ms) ==
    racer.lateralDuration <= 0 \/ ms - racer.lateralStartTime >= racer.lateralDuration

\* [currentLane - 1, currentLane, currentLane + 1].filter(lane => lane >= 0 && lane < totalLanes)
stepOptions(racer) ==
    LET currentLane == RoundLane(racer.lateralPos)
    IN  SelectSeq(<<currentLane - 1, currentLane, currentLane + 1>>,
                  LAMBDA lane : lane >= 0 /\ lane < totalLanes)

\* the eased position: t < 0.5 ? 2 * t * t : 1 - Math.pow(-2 * t + 2, 2) / 2,
\* with t = a / d clamped to [0, 1]
Eased(startPos, target, a0, d) ==
    LET a == Min(d, Max(0, a0))
    IN  IF 2 * a < d
        THEN startPos + ((target - startPos) * (2 * a * a)) \div (d * d)
        ELSE target - ((target - startPos) * (2 * (d - a) * (d - a))) \div (d * d)

\* the lateral-drift block; pick = 0: Math.random() >= 0.06, otherwise
\* pick - 1 = Math.floor(Math.random() * stepOptions.length)
Drift(racer, ms, pick, duration) ==
    LET opts == stepOptions(racer)
        drawn == opts[pick]
        idx == CHOOSE k \in DOMAIN opts : opts[k] = drawn
        nextTarget == IF drawn * LatScale = racer.lateralTarget /\ Len(opts) > 1
                      THEN opts[(idx % Len(opts)) + 1] ELSE drawn
        moved == IF pick > 0
                 THEN [racer EXCEPT !.lateralStartPos = racer.lateralPos,
                                    !.lateralTarget = nextTarget * LatScale,
                                    !.lateralStartTime = ms,
                                    !.lateralDuration = duration]
                 ELSE racer
        pos == IF moved.lateralDuration > 0
               THEN Eased(moved.lateralStartPos, moved.lateralTarget,
                          ms - moved.lateralStartTime, moved.lateralDuration)
               ELSE moved.lateralPos
    IN  [moved EXCEPT !.lateralPos = Max(0, Min((totalLanes - 1) * LatScale, pos))]

\* an updater without the `if (racer.knockedOut)` branch
UpdateHazardNoBranch(racer, speeds, ms, dt, pick, duration) ==
    LET totalDistance == Integrate(speeds, ms, TRACK_LENGTH_V)
        y == Max(START_LINE * Scale - totalDistance, FINISH_LINE_V * Scale)
        isFinished == y <= FINISH_LINE_V * Scale
    IN  Drift([racer EXCEPT !.y = y, !.totalDistance = totalDistance, !.finished = isFinished],
              ms, pick, duration)

\* prevRacers.map((racer, idx) => ...) for one racer
UpdateHazard(racer, speeds, ms, dt, pick, duration) ==
    IF racer.knockedOut
    THEN FallStep(racer, dt)
    ELSE LET totalDistance == Integrate(speeds, ms, TRACK_LENGTH_V)
             y == Max(START_LINE * Scale - totalDistance, FINISH_LINE_V * Scale)
             isFinished == y <= FINISH_LINE_V * Scale
         IN  Drift([racer EXCEPT !.y = y, !.totalDistance = totalDistance, !.finished = isFinished],
                   ms, pick, duration)

\* the assignments that knock a racer out
KnockOut(racer) ==
    [racer EXCEPT !.knockedOut = TRUE, !.isFalling = TRUE, !.fallY = racer.y,
                  !.fallVelocity = 0, !.totalDistance = 0, !.finished = FALSE]

\* --------------------------------------------------- collisions and hazards
COLLISION_Y == 14

\* const collisionX = laneWidth * 0.35, in 1/Scale px
collisionX == (laneWidth * 35) \div 100

\* a choice of the racer to knock out that takes the one ahead
TrailingIsLeader(arr, i, j) == IF arr[i].y < arr[j].y THEN i ELSE j

\* a choice that always takes racerA
TrailingIsRacerA(arr, i, j) == i

\* const trailing = racerA.y > racerB.y ? racerA : racerB
Trailing(arr, i, j) == IF arr[i].y > arr[j].y THEN i ELSE j

\* the record of one knock-out: who, by what, and where both were
Knock(kind, arr, t, o) ==
    [kind |-> kind, out |-> arr[t].entry, by |-> IF o = 0 THEN None ELSE arr[o].entry,
     outY |-> arr[t].y, byY |-> IF o = 0 THEN 0 ELSE arr[o].y,
     byActive |-> o # 0 /\ ~arr[o].knockedOut /\ ~arr[o].finished]

\* for (let j = i + 1; j < nextRacers.length; j += 1): c = [arr, ev]
RECURSIVE CollideInner(_, _, _)
CollideInner(c, i, j) ==
    IF j > Len(c.arr) THEN c
    ELSE LET racerA == c.arr[i]
             racerB == c.arr[j]
             t == Trailing(c.arr, i, j)
             o == IF t = i THEN j ELSE i
         IN  IF racerB.finished \/ racerB.knockedOut
             THEN CollideInner(c, i, j + 1)
             ELSE IF /\ Abs(racerA.y - racerB.y) < COLLISION_Y * Scale
                     /\ Abs(RacerX(racerA) - RacerX(racerB)) < collisionX
                  THEN CollideInner([arr |-> [c.arr EXCEPT ![t] = KnockOut(c.arr[t])],
                                     ev |-> c.ev \cup {Knock("collision", c.arr, t, o)}],
                                    i, j + 1)
                  ELSE CollideInner(c, i, j + 1)

\* for (let i = 0; i < nextRacers.length; i += 1)
RECURSIVE CollideOuter(_, _)
CollideOuter(c, i) ==
    IF i > Len(c.arr) THEN c
    ELSE IF c.arr[i].finished \/ c.arr[i].knockedOut
         THEN CollideOuter(c, i + 1)
         ELSE CollideOuter(CollideInner(c, i, i + 1), i + 1)

\* obstaclesRef.current.some(...)
hitObstacle(racer, obs) ==
    \E k \in DOMAIN obs :
        /\ Abs(obs[k].x - RacerX(racer)) * 10 < obs[k].size * Scale * 7
        /\ Abs(obs[k].y - racer.y) * 10 < obs[k].size * Scale * 7

\* birdsRef.current.some(...)
hitBird(racer, bds) ==
    \E k \in DOMAIN bds :
        /\ Abs(bds[k].x - RacerX(racer)) * 10 < bds[k].size * Scale * 9
        /\ Abs(bds[k].y - racer.y) * 10 < bds[k].size * Scale * 6

\* the obstacle and bird pass over nextRacers: c = [arr, ev]
HazardPass(c, obs, bds) ==
    LET struck == {i \in DOMAIN c.arr :
                      /\ ~c.arr[i].finished /\ ~c.arr[i].knockedOut
                      /\ (hitObstacle(c.arr[i], obs) \/ hitBird(c.arr[i], bds))}
    IN  [arr |-> [i \in DOMAIN c.arr |-> IF i \in struck THEN KnockOut(c.arr[i]) ELSE c.arr[i]],
         ev |-> c.ev \cup {Knock("hazard", c.arr, i, 0) : i \in struck}]

\* --------------------------------------------------- obstacles and birds
\* Math.ceil(Math.max(allEntries.length, 1) / 3)
obstacleGate == (Max(Len(entries), 1) + 2) \div 3

\* Math.ceil((Math.max(allEntries.length, 1) * 2) / 3)
birdGate == (Max(Len(entries), 1) * 2 + 2) \div 3

allowObstacles == Cardinality(DOMAIN winOrder) >= obstacleGate

\* birds let in at the obstacle gate
allowBirdsAtObstacleGate == Cardinality(DOMAIN winOrder) >= obstacleGate

allowBirds == Cardinality(DOMAIN winOrder) >= birdGate

MAX_BIRDS == 7

\* the draws sampled for a new obstacle: r (percent of the track width),
\* vx in +-[40, 100), vy in [260, 420), size in [12, 22)
ObstacleDraws == {[r |-> 40, vx |-> 40, vy |-> 290, size |-> 21]}

\* the draws sampled for a new bird: r (percent of TRACK_HEIGHT - 60),
\* vx in [160, 280), size in [16, 26)
BirdDraws == {[r |-> 20, vx |-> 180, size |-> 20]}

\* updatedObstacles.push({...})
NewObstacle(d) ==
    [x |-> trackLeft + (d.r * getTrackWidth(totalLanes) * Scale) \div 100,
     y |-> (FINISH_LINE_V - 20) * Scale, vx |-> d.vx, vy |-> d.vy, size |-> d.size]

\* updatedBirds.push({...})
NewBird(d) ==
    [x |-> trackLeft - 30 * Scale,
     y |-> (FINISH_LINE_V + 30) * Scale + (d.r * (TRACK_HEIGHT - 60) * Scale) \div 100,
     vx |-> d.vx, size |-> d.size]

\* obstaclesRef.current.map(...).filter((obstacle) => obstacle.y < START_LINE + 40)
MoveObstacles(obs, dt) ==
    SelectSeq([k \in DOMAIN obs |->
                  [obs[k] EXCEPT !.x = @ + obs[k].vx * ((dt * Scale) \div 1000),
                                 !.y = @ + obs[k].vy * ((dt * Scale) \div 1000)]],
              LAMBDA o : o.y < (START_LINE + 40) * Scale)

\* birdsRef.current.map(...).map(...): move, then wrap around the track
MoveBirds(bds, dt) ==
    LET trackRight == trackLeft + getTrackWidth(totalLanes) * Scale
        wrap(b) == IF b.x < trackLeft - 40 * Scale THEN [b EXCEPT !.x = trackRight + 40 * Scale]
                   ELSE IF b.x > trackRight + 40 * Scale THEN [b EXCEPT !.x = trackLeft - 40 * Scale]
                   ELSE b
    IN  [k \in DOMAIN bds |-> wrap([bds[k] EXCEPT !.x = @ + bds[k].vx * ((dt * Scale) \div 1000)])]

\* lateral draws that do not wait for the end of a move
PicksAnytime(ms) ==
    {p \in [DOMAIN racers -> 0..3] :
        /\ \A i \in DOMAIN racers :
              p[i] > 0 => /\ ~racers[i].knockedOut
                          /\ p[i] <= Len(stepOptions(racers[i]))
        /\ drifts + Cardinality({i \in DOMAIN racers : p[i] > 0}) <= MaxDrifts}

\* the lateral draws of one frame: 0 (no move) or an index into stepOptions
Picks(ms) ==
    {p \in [DOMAIN racers -> 0..3] :
        /\ \A i \in DOMAIN racers :
              p[i] > 0 => /\ ~racers[i].knockedOut
                          /\ lateralFinished(racers[i], ms)
                          /\ p[i] <= Len(stepOptions(racers[i]))
        /\ drifts + Cardinality({i \in DOMAIN racers : p[i] > 0}) <= MaxDrifts}

animateHazard ==
    /\ variant = "hazard"
    /\ raceState = "racing"
    /\ animationRef \in rafQueue
    /\ \E dt \in HazardTickSteps, runs \in UpdaterRuns, duration \in LateralDurations :
       \E od \in {<<>>} \cup {<<d>> : d \in ObstacleDraws},
          bd \in {<<>>} \cup {<<d>> : d \in BirdDraws} :
          LET ms == elapsed + dt
              moved == MoveObstacles(obstacles, dt)
              updatedObstacles == moved \o [k \in DOMAIN od |-> NewObstacle(od[k])]
              flown == MoveBirds(birds, dt)
              updatedBirds == flown \o [k \in DOMAIN bd |-> NewBird(bd[k])]
          IN  /\ ms <= MaxElapsed
              /\ FrameBeforeTimer(ms)
              /\ od # <<>> => allowObstacles
              /\ bd # <<>> => allowBirds /\ Len(flown) < MAX_BIRDS
              /\ spawns + Len(od) <= MaxSpawns
              /\ \E p \in Picks(ms) :
                    LET updated == [i \in DOMAIN racers |->
                                       UpdateHazard(racers[i], racerSpeedProfiles[i], ms, dt,
                                                    p[i], duration)]
                        collided == CollideOuter([arr |-> updated, ev |-> {}], 1)
                        struck == HazardPass(collided, updatedObstacles, updatedBirds)
                        pass == UpdaterPasses(struck.arr, finished, runs)
                    IN  AfterUpdate(struck.arr, ms, pass,
                                    (~finished /\ ms < RACE_DURATION) \/ hasFalling,
                                    updatedObstacles, updatedBirds,
                                    drifts + Cardinality({i \in DOMAIN racers : p[i] > 0}),
                                    spawns + Len(od), struck.ev)

\* ------------------------------------------------------- specification
Rosters == {[i \in 1..n |-> i] : n \in 0..MaxEntries}

\* the name of an entry read from localStorage
StoredName == <<"a">>

\* the state after construction: the roster comes from localStorage
InitAppFrom(rosters) ==
    /\ entries \in rosters
    /\ eliminatedIds = <<>>
    /\ winOrder = EmptyMap
    /\ winner = None
    /\ showRace = FALSE
    /\ racingMode = "car"
    /\ timers = <<>>
    /\ groups = <<>>
    /\ showManagementModal = FALSE
    /\ now = Len(entries)
    /\ names = [id \in Range(entries) |-> StoredName]
    /\ alerted = NoAlert

InitApp == InitAppFrom(Rosters)

InitGame(v) ==
    /\ variant = v
    /\ racers = NewRacers(v, entries, entries)
    /\ raceState = "ready"
    /\ racerSpeedProfiles = <<>>
    /\ elapsed = 0
    /\ finished = FALSE
    /\ hasFalling = FALSE
    /\ rafQueue = {}
    /\ animationRef = 0
    /\ obstacles = <<>>
    /\ birds = <<>>
    /\ drifts = 0
    /\ spawns = 0
    /\ reported = <<>>
    /\ cancelled = FALSE
    /\ knocks = {}

Init == InitApp /\ InitGame("plain")

Next ==
    \/ startRace
    \/ handleRaceComplete
    \/ resetRace
    \/ setRacingMode
    \/ timerFires
    \/ animate

Spec == Init /\ [][Next]_vars

\* the same controller with the lateral-drift / hazard RacingGame mounted
InitHazard == InitApp /\ InitGame("hazard")

NextHazard ==
    \/ startRace
    \/ handleRaceComplete
    \/ resetRace
    \/ setRacingMode
    \/ timerFires
    \/ animateHazard

SpecHazard == InitHazard /\ [][NextHazard]_vars

\* the controller with the management dialog: roster edits and saved groups
NextRoster ==
    \/ startRace
    \/ handleRaceComplete
    \/ resetRace
    \/ timerFires
    \/ animate
    \/ setShowManagementModal
    \/ addEntry
    \/ removeEntry
    \/ resetAllEntries
    \/ saveGroup
    \/ loadGroup
    \/ deleteGroup

SpecRoster == Init /\ [][NextRoster]_vars

\* the management dialog alone, on rosters at the limit of MAX_ENTRIES
FullRosters == {[i \in 1..n |-> i] : n \in {MAX_ENTRIES - 1, MAX_ENTRIES}}

InitEntries == InitAppFrom(FullRosters) /\ InitGame("plain")

NextEntries ==
    \/ setShowManagementModal
    \/ addEntry
    \/ removeEntry
    \/ resetAllEntries
    \/ saveGroup
    \/ loadGroup
    \/ deleteGroup

SpecEntries == InitEntries /\ [][NextEntries]_vars

\* a tournament that is only played: Start Race / Next Race, the frames and
\* the timeouts.  Frames and timeouts run whenever they are due, and the user
\* keeps pressing Start Race / Next Race while one of them is on screen.
NextTournament ==
    \/ startRace
    \/ handleRaceComplete
    \/ timerFires
    \/ animate

SpecTournament ==
    /\ Init
    /\ [][NextTournament]_vars
    /\ WF_vars(animate)
    /\ WF_vars(timerFires)
    /\ WF_vars(startRace \/ handleRaceComplete)

\* ================================================================ claims
MIN_SPEED == 200

\* every racer has covered the track after TRACK_LENGTH / MIN_SPEED seconds
SlowestFinishMs == (TRACK_LENGTH * 1000) \div MIN_SPEED

Finishers == {i \in DOMAIN racers : racers[i].finished}

RacerEntries == {racers[i].entry : i \in DOMAIN racers}

\* C1: between raceState becoming 'racing' and leaving it, onWinner is
\* called at most once, however many racers are at the finish line.
C1_SingleWinner == Len(reported) <= 1

\* a race ended by a frame in which two racers were at the finish line
C1_Witness ==
    /\ raceState = "finished"
    /\ Len(reported) = 1
    /\ Cardinality(Finishers) >= 2

\* C2 (as claimed): when several racers finish in the same frame, the one
\* passed to onWinner has a strictly greater totalDistance than every other
\* finisher of that frame.
C2_StrictlyFarthestWins ==
    (raceState = "finished" /\ reported # <<>>) =>
        \A i, j \in Finishers :
            (racers[i].entry = reported[1] /\ racers[j].entry # reported[1])
                => racers[i].totalDistance > racers[j].totalDistance

\* C3: a race of two or more racers is over by the first frame whose elapsed
\* time is at least TRACK_LENGTH / 200 s, which is below RACE_DURATION; while
\* it is racing the next frame is requested, and the racer passed to onWinner
\* is one of the racers of the race.
C3_WinnerBeforeCap ==
    /\ SlowestFinishMs < RACE_DURATION
    /\ (raceState = "racing" /\ Len(racers) >= 2) =>
            /\ elapsed < SlowestFinishMs
            /\ animationRef \in rafQueue
    /\ (raceState = "finished" /\ Len(racers) >= 2) =>
            /\ Len(reported) >= 1
            /\ \A k \in DOMAIN reported : reported[k] \in RacerEntries

\* the slowest possible field: the winner is reported by the frame at 3250 ms
C3_Witness ==
    /\ raceState = "finished"
    /\ Len(racers) >= 2
    /\ elapsed >= SlowestFinishMs
    /\ reported # <<>>

\* C10: every pending animation frame was requested by the race effect that
\* is mounted now, and the race it belongs to is running: the frames of an
\* abandoned or superseded race are cancelled and can never run.
C10_NoStaleFrame ==
    \A id \in rafQueue : id = animationRef /\ raceState = "racing" /\ showRace

\* a race was superseded while its frame was pending
C10_Witness == cancelled /\ raceState = "racing" /\ rafQueue = {animationRef}

\* ------------------------------------------- claims on the hazard variant
\* a step that is an animation frame: the clock reading advances
Tick == elapsed' > elapsed

AllKnockedOut == Len(racers) > 0 /\ \A i \in DOMAIN racers : racers[i].knockedOut

KnockedOut == {i \in DOMAIN racers : racers[i].knockedOut}

\* C4 (as claimed): when every racer is knocked out, the race is still on its
\* way to an outcome: while raceState is 'racing' its next frame is pending.
C4_AllKnockedOutResolves ==
    (variant = "hazard" /\ raceState = "racing" /\ AllKnockedOut) => animationRef \in rafQueue

\* C5: a knocked-out racer is not marked finished and is not among the racers
\* passed to onWinner, and a frame leaves a knocked-out racer knocked out.
C5_KnockedOutStaysOut ==
    /\ [](\A i \in KnockedOut :
             ~racers[i].finished /\ racers[i].entry \notin Range(reported))
    /\ [][Tick => \A i \in KnockedOut :
                     /\ i \in DOMAIN racers'
                     /\ racers'[i].entry = racers[i].entry
                     /\ racers'[i].knockedOut
                     /\ ~racers'[i].finished]_vars

\* a race won by one racer after another was knocked out and fell to the start
C5_Witness ==
    /\ variant = "hazard"
    /\ raceState = "finished"
    /\ \E i \in KnockedOut : ~racers[i].isFalling
    /\ \E i \in DOMAIN racers : racers[i].entry \in Range(reported)

C7_AtMostOneFinished == Cardinality(Finishers) <= 1

\* C7 (amended): no racer has finished = true while the race is running; the
\* racers marked finished are those at the finish line in the frame that
\* reported the winner, and exactly one of them was passed to onWinner.
C7_FinishedOnlyInFinalFrame ==
    Finishers # {} =>
        /\ raceState = "finished"
        /\ Len(reported) = 1
        /\ \E i \in Finishers : racers[i].entry = reported[1]

\* two racers at the finish line in the frame that ended a hazard race
C7_Witness ==
    /\ variant = "hazard"
    /\ raceState = "finished"
    /\ Cardinality(Finishers) >= 2

\* C8: in every frame a knocked-out racer's y does not decrease, and it does
\* not pass the start line.
C8_KnockedOutOnlyFallsBack ==
    [][Tick => \A i \in KnockedOut :
                  /\ racers'[i].y >= racers[i].y
                  /\ racers'[i].y <= START_LINE * Scale]_vars

\* a knocked-out racer part of the way down, and one back on the start line
C8_Witness ==
    /\ raceState = "racing"
    /\ \E i \in KnockedOut : racers[i].isFalling /\ racers[i].fallVelocity > 0
    /\ \E i \in KnockedOut : ~racers[i].isFalling /\ racers[i].y = START_LINE * Scale

\* C9: in every frame, a racer that is not knocked out after the frame has
\* moved on or stayed: its distance has not decreased and its y has not
\* increased.
C9_MonotonicProgress ==
    [][Tick => \A i \in DOMAIN racers :
                  (i \in DOMAIN racers' /\ ~racers'[i].knockedOut) =>
                      /\ racers'[i].totalDistance >= racers[i].totalDistance
                      /\ racers'[i].y <= racers[i].y]_vars

\* a racer under way beside one that was knocked out
C9_Witness ==
    /\ raceState = "racing"
    /\ elapsed >= 500
    /\ KnockedOut # {}
    /\ \E i \in DOMAIN racers :
          ~racers[i].knockedOut /\ racers[i].totalDistance > 0 /\ ~racers[i].finished

\* ------------------------------------------- claims on the tournament
\* a step that runs the callback of a pending setTimeout
TimerStep == timers # <<>> /\ timers' = Tail(timers)

\* a step in which Start Race or Next Race took the single-participant path
SoleStartStep == Len(timers') = Len(timers) + 1

Ranked == DOMAIN winOrder

\* C11 (as claimed): Start Race / Next Race with exactly one active
\* participant starts no race (showRace stays false, no frame is requested),
\* and the callback it schedules adds that participant, not eliminated
\* before, to eliminatedIds and gives it the next rank: one more than the
\* number of participants ranked so far.
C11_SoleParticipantDeclared ==
    [][/\ SoleStartStep =>
             /\ Len(activeEntries(entries, eliminatedIds)) = 1
             /\ ~showRace /\ ~showRace'
             /\ raceState' # "racing" /\ rafQueue' = {}
       /\ TimerStep =>
             /\ Head(timers) \notin Range(eliminatedIds)
             /\ eliminatedIds' = Append(eliminatedIds, Head(timers))
             /\ Ranked' = Ranked \cup {Head(timers)}
             /\ winOrder'[Head(timers)] = Cardinality(Ranked) + 1]_vars

\* a banner that offers Final Standings while one participant is left
FinalStandingsOfferedAtOne ==
    winner # None /\ ~showRace /\ Len(activeEntries(entries, eliminatedIds)) = 1

\* the winner banner offers Final Standings: currentWinner && !isRacing with
\* entries.length === 0
FinalStandingsOffered ==
    winner # None /\ ~showRace /\ Len(activeEntries(entries, eliminatedIds)) = 0

\* the winner banner offers Next Race
NextRaceOffered ==
    winner # None /\ ~showRace /\ Len(activeEntries(entries, eliminatedIds)) # 0

\* Array.prototype.sort((a, b) => rank(a) - rank(b)): a stable insertion
RECURSIVE InsertByRank(_, _, _)
InsertByRank(sorted, e, rank) ==
    IF sorted = <<>> THEN <<e>>
    ELSE IF rank[e] < rank[Head(sorted)] THEN <<e>> \o sorted
         ELSE <<Head(sorted)>> \o InsertByRank(Tail(sorted), e, rank)

RECURSIVE SortByRank(_, _)
SortByRank(es, rank) ==
    IF es = <<>> THEN <<>>
    ELSE InsertByRank(SortByRank(SubSeq(es, 1, Len(es) - 1), rank), es[Len(es)], rank)

\* FinalStandingsDialog: entries.filter(winOrder.has).sort(by rank)
standings == SortByRank(SelectSeq(entries, LAMBDA e : e \in Ranked), winOrder)

\* the ids of a sequence in order of first occurrence
RECURSIVE FirstOccurrences(_)
FirstOccurrences(ids) ==
    IF ids = <<>> THEN <<>>
    ELSE LET front == SubSeq(ids, 1, Len(ids) - 1)
         IN  IF ids[Len(ids)] \in Range(front) THEN FirstOccurrences(front)
             ELSE Append(FirstOccurrences(front), ids[Len(ids)])

AllRanked == Len(entries) >= 1 /\ Range(entries) \subseteq Ranked

\* what is left of a tournament: the participants without a rank, then the
\* time left in the running race (ms), or the sole-participant timeouts that
\* can still be set
Remaining ==
    Cardinality(Range(entries) \ Ranked) * (2 * (MaxElapsed + RACE_DURATION))
        + (IF showRace THEN MaxElapsed + RACE_DURATION - elapsed
           ELSE MaxElapsed + RACE_DURATION + 1 + MaxTimers - Len(timers))

\* C12: in a tournament that is only played, the frame that ends a race
\* eliminates and ranks exactly one participant; once every participant has a
\* rank, Final Standings is offered and lists all participants in the order
\* they were eliminated; and every tournament of N >= 1 participants gets
\* there: until then the running race has its next frame pending, or a
\* timeout is pending or Start Race can be pressed, and every step brings the
\* end nearer.
C12_TournamentCompletes ==
    /\ [][(raceState = "racing" /\ raceState' = "finished") =>
             /\ Len(eliminatedIds') = Len(eliminatedIds) + 1
             /\ Cardinality(Ranked') = Cardinality(Ranked) + 1]_vars
    /\ [](AllRanked =>
             /\ FinalStandingsOffered
             /\ Len(standings) = Len(entries)
             /\ standings = FirstOccurrences(eliminatedIds))
    /\ []((Len(entries) >= 1 /\ ~AllRanked) =>
             IF showRace
             THEN raceState = "racing" /\ animationRef \in rafQueue /\ timers = <<>>
             ELSE timers # <<>> \/ ENABLED startRace)
    /\ [][(Len(entries) >= 1 /\ ~AllRanked) =>
             Remaining >= 0 /\ Remaining' >= 0 /\ Remaining' < Remaining]_vars

\* a tournament of three participants played to the end
C12_Witness ==
    /\ Len(entries) = 3
    /\ AllRanked
    /\ FinalStandingsOffered
    /\ standings = eliminatedIds

\* the k-th distinct id of eliminatedIds
EliminationOrder == FirstOccurrences(eliminatedIds)

\* C13 (as claimed): the ranks in winOrder are pairwise distinct, are exactly
\* 1..k for the k ranked participants, and follow the order of elimination.
C13_RanksAreOneToK ==
    /\ \A a, b \in Ranked : a # b => winOrder[a] # winOrder[b]
    /\ {winOrder[id] : id \in Ranked} = 1..Cardinality(Ranked)
    /\ \A i \in DOMAIN EliminationOrder :
          EliminationOrder[i] \in Ranked => winOrder[EliminationOrder[i]] = i

\* C14: every racer's laneIndex is its entry's index in the full roster, a
\* participant keeps its laneIndex from one step (and so from one race) to the
\* next, and no two racers share a laneIndex.
C14_LaneIndexIsRosterIndex ==
    /\ [](\A i \in DOMAIN racers :
             /\ racers[i].laneIndex = FindIndex(entries, racers[i].entry)
             /\ \A j \in DOMAIN racers : j # i => racers[j].laneIndex # racers[i].laneIndex)
    /\ [][\A i \in DOMAIN racers, j \in DOMAIN racers' :
             racers[i].entry = racers'[j].entry => racers[i].laneIndex = racers'[j].laneIndex]_vars

\* a later race of a tournament: a participant ahead in the roster is out, so
\* the first racer is not the first roster entry
C14_Witness ==
    /\ raceState = "racing"
    /\ elapsed > 0
    /\ eliminatedIds # <<>>
    /\ racers[1].laneIndex # 0

\* C15 (as claimed): the roster changes only between races, never while
\* showRace is true or raceState is 'racing'.
C15_RosterFixedDuringRace ==
    [][entries' # entries => ~showRace /\ raceState # "racing"]_vars

StartRejected == "Add at least 1 participant to start a race!"

\* C16: a Start Race with no active participant raises the alert and leaves
\* showRace, winner, eliminatedIds and winOrder as they were; with a fixed
\* roster no race is ever on without an active participant, and no frame is
\* ever pending or run over an empty racer list.
C16_EmptyStartRejected ==
    /\ [][Len(activeEntries(entries, eliminatedIds)) = 0 =>
             (alerted' = StartRejected <=> alerted' # NoAlert)]_vars
    /\ [][alerted' = StartRejected =>
             /\ Len(activeEntries(entries, eliminatedIds)) = 0
             /\ UNCHANGED <<showRace, winner, eliminatedIds, winOrder>>]_vars
    /\ [](showRace => Len(activeEntries(entries, eliminatedIds)) >= 1)
    /\ [](rafQueue # {} \/ raceState = "racing" => Len(racers) >= 1)

\* Start Race was pressed on a finished tournament and on an empty roster
C16_Witness ==
    /\ alerted = StartRejected
    /\ Len(activeEntries(entries, eliminatedIds)) = 0
    /\ ~showRace
    /\ raceState # "racing"

\* a frame has reported a winner, or has read elapsed >= RACE_DURATION with no
\* racer at the finish line
Stopped ==
    \/ raceState = "finished"
    \/ raceState = "racing" /\ elapsed >= RACE_DURATION /\ Finishers = {}

\* C17 (as claimed): once a frame has reported a winner, or has read
\* elapsed >= RACE_DURATION with no finisher, no frame of that race is pending,
\* no further frame runs and the racers no longer change.
C17_StoppedRaceStaysStopped ==
    /\ [](Stopped => rafQueue = {})
    /\ [][Stopped => ~Tick]_vars
    /\ [][Stopped /\ raceState' = raceState /\ elapsed' = elapsed => racers' = racers]_vars

\* the racers a single frame at clock reading ms makes of racers that come
\* straight from the start line, with no effect state and no earlier frame
DirectRun(ms) ==
    [i \in DOMAIN racers |->
        UpdatePlain(NewRacer("plain", racers[i].entry, racers[i].laneIndex),
                    racerSpeedProfiles[i], ms, 0)]

\* C18: after every frame of the plain race each racer's x, totalDistance and
\* finished flag, and the entry passed to onWinner, are those of a run with
\* the same speed profiles that reads the same elapsed time in its first
\* frame, with no effect state (previousSpeed, spinAngle) and no earlier
\* frames.
C18_PositionFromProfileAndTime ==
    [][(variant = "plain" /\ Tick) =>
          LET direct == DirectRun(elapsed')
          IN  /\ \A i \in DOMAIN racers :
                    /\ racers'[i].x = direct[i].x
                    /\ racers'[i].totalDistance = direct[i].totalDistance
                    /\ racers'[i].finished = direct[i].finished
              /\ reported' = reported \o WinnerPass(direct, finished).calls]_vars

\* a racing state whose effect state differs from that of a direct run: a
\* racer has slowed down between two frames and spins
C18_Witness ==
    /\ variant = "plain"
    /\ raceState = "racing"
    /\ elapsed > 0
    /\ \E i \in DOMAIN racers :
          /\ racers[i].spinAngle # 0
          /\ racers[i].previousSpeed # DirectRun(elapsed)[i].previousSpeed \/ racers[i].spinAngle # DirectRun(elapsed)[i].spinAngle

\* ----------------------------------------- claims on the speed profiles
\* the values of Math.random(), in hundredths
RandomDraws == 0..99

\* a segment count drawn as Math.floor(Math.random() * 4) + 2
numChangesWide(r) == (r * 4) \div 100 + 2

\* Math.floor(Math.random() * 3) + 2
numChanges(r) == (r * 3) \div 100 + 2

\* Math.random() * 200 + 200
speedDraw(r) == (r * 200) \div 100 + 200

\* the profiles the generator can return
Generated(speeds) ==
    /\ \E r \in RandomDraws : Len(speeds) = numChanges(r)
    /\ \A k \in DOMAIN speeds : \E r \in RandomDraws : speeds[k] = speedDraw(r)

\* C19: every draw of the generator gives 2, 3 or 4 segments whose equal
\* lengths add up to the track length and a speed in [200, 400); every
\* profile of a running race is such a profile.
C19_ProfilesWellFormed ==
    /\ \A r \in RandomDraws :
          /\ numChanges(r) \in {2, 3, 4}
          /\ numChanges(r) * ((TRACK_LENGTH * Scale) \div numChanges(r)) = TRACK_LENGTH * Scale
          /\ 200 <= speedDraw(r) /\ speedDraw(r) < 400
    /\ \A i \in DOMAIN racerSpeedProfiles :
          LET speeds == racerSpeedProfiles[i]
          IN  /\ Generated(speeds)
              /\ Len(speeds) \in {2, 3, 4}
              /\ Len(speeds) * segmentDistance(speeds, TRACK_LENGTH) = TRACK_LENGTH * Scale
              /\ \A k \in DOMAIN speeds : 200 <= speeds[k] /\ speeds[k] < 400

\* a race whose three racers drew 2, 3 and 4 segments
C19_Witness ==
    /\ raceState = "racing"
    /\ {Len(racerSpeedProfiles[i]) : i \in DOMAIN racerSpeedProfiles} = {2, 3, 4}

\* ------------------------------------------- claims on the winner banner
\* currentWinner && !isRacing
WinnerDisplayed == winner # None /\ ~showRace

C21_ModeSwitchKeepsRace ==
    [][racingMode' # racingMode =>
          /\ racers' = racers
          /\ racerSpeedProfiles' = racerSpeedProfiles
          /\ elapsed' = elapsed
          /\ raceState' = raceState
          /\ animationRef' = animationRef]_vars

\* ------------------------------------ claims on the management dialog
\* C22 (as claimed): loading a group makes the group's entries the roster,
\* empties eliminatedIds and winOrder, clears the winner, leaves no race
\* running, and puts the group's participants on the track at the start line.
C22_LoadGroupResets ==
    [][loadGroup =>
          /\ \E g \in DOMAIN groups : entries' = groups[g]
          /\ eliminatedIds' = <<>>
          /\ winOrder' = EmptyMap
          /\ winner' = None
          /\ ~showRace'
          /\ raceState' # "racing"
          /\ rafQueue' = {}
          /\ racers' = NewRacers(variant, entries', entries')]_vars

\* a name that is empty or whitespace only
Blank(name) == \A k \in DOMAIN name : name[k] = " "

\* C23: the roster never holds more than MAX_ENTRIES entries, and every entry
\* of it has a name that is neither empty nor whitespace only.
C23_RosterWithinLimit ==
    /\ Len(entries) <= MAX_ENTRIES
    /\ \A id \in Range(entries) : id \in DOMAIN names /\ ~Blank(names[id])

\* a full roster whose last entry was added in the dialog, with a full roster
\* saved as a group
C23_Witness ==
    /\ Len(entries) = MAX_ENTRIES
    /\ entries[Len(entries)] = now
    /\ now > MAX_ENTRIES
    /\ names[now] = <<"a">>
    /\ \E g \in DOMAIN groups : Len(groups[g]) = MAX_ENTRIES

\* ------------------------------------------- claims on the integration
\* the time at which a racer reaches the end of segment k, in 1/Scale s
RECURSIVE TimeToEndOf(_, _, _)
TimeToEndOf(speeds, k, trackLength) ==
    IF k = 0 THEN 0
    ELSE TimeToEndOf(speeds, k - 1, trackLength)
             + segmentDistance(speeds, trackLength) \div speeds[k]

\* the distance covered after ms milliseconds by travelling the segments in
\* order, each at its own speed, and on at the last speed, in 1/Scale px
Travelled(speeds, ms, trackLength) ==
    LET t == (ms * Scale) \div 1000
        n == Len(speeds)
        k == CHOOSE j \in 0..n :
                 /\ TimeToEndOf(speeds, j, trackLength) <= t
                 /\ j < n => TimeToEndOf(speeds, j + 1, trackLength) > t
    IN  k * segmentDistance(speeds, trackLength)
            + speeds[Min(k + 1, n)] * (t - TimeToEndOf(speeds, k, trackLength))

\* the clock readings of the frames of the model
FrameTimes == {250 * k : k \in 0..(MaxElapsed \div 250)}

\* C24: for every profile and every frame time the integration returns
\* min(track length, distance travelled), between 0 and the track length; in
\* a race every racer's totalDistance is that value and its x lies between
\* the start and the finish line.
C24_IntegrationIsDistanceTravelled ==
    /\ \A speeds \in ProfileSet \cup HazardProfileSet, ms \in FrameTimes :
          LET d == Integrate(speeds, ms, TRACK_LENGTH)
          IN  /\ d = Min(TRACK_LENGTH * Scale, Travelled(speeds, ms, TRACK_LENGTH))
              /\ 0 <= d /\ d <= TRACK_LENGTH * Scale
    /\ (variant = "plain" /\ raceState = "racing" /\ elapsed > 0) =>
          \A i \in DOMAIN racers :
              /\ racers[i].totalDistance
                    = Min(TRACK_LENGTH * Scale,
                          Travelled(racerSpeedProfiles[i], elapsed, TRACK_LENGTH))
              /\ racers[i].x = START_X * Scale + racers[i].totalDistance
              /\ racers[i].x <= FINISH_LINE * Scale

\* a frame that found one racer inside its second segment and another in its
\* first
C24_Witness ==
    /\ variant = "plain"
    /\ raceState = "racing"
    /\ elapsed > 0
    /\ \E i, j \in DOMAIN racers :
          /\ racers[i].totalDistance > segmentDistance(racerSpeedProfiles[i], TRACK_LENGTH)
          /\ racers[j].totalDistance < segmentDistance(racerSpeedProfiles[j], TRACK_LENGTH)

\* ------------------------------------------- claims on the collision pass
\* the racers a frame handed to its collision pass: the passes change no
\* position, and a racer they knocked out was neither knocked out nor finished
StartOfPass ==
    [i \in DOMAIN racers |->
        IF racers[i].entry \in {k.out : k \in knocks}
        THEN [racers[i] EXCEPT !.knockedOut = FALSE, !.finished = FALSE]
        ELSE racers[i]]

\* the entries the pairwise pass knocks out of an array
CollisionOuts(arr) ==
    {k.out : k \in {e \in CollideOuter([arr |-> arr, ev |-> {}], 1).ev : e.kind = "collision"}}

\* the same racers in another array order
Permuted(arr, p) == [i \in DOMAIN arr |-> arr[p[i]]]

\* C25: the racers knocked out by the pairwise pass of a frame are the same
\* for every order of the racer array, and none of them was knocked out in a
\* pair with a racer that was itself knocked out earlier in the pass.
C25_CollisionsFromStartOfPass ==
    (variant = "hazard" /\ knocks # {}) =>
        /\ \A p \in Permutations(DOMAIN racers) :
              CollisionOuts(Permuted(StartOfPass, p)) = CollisionOuts(StartOfPass)
        /\ \A k \in knocks : k.kind = "collision" => k.byActive

\* ------------------------------------------- claims on Reset Race
\* C26: Reset Race leaves every participant active and unranked, and leaves
\* no callback pending that was scheduled before it: no animation frame and
\* no 300 ms timer, whose callback would eliminate and rank a participant.
C26_ResetDiscardsPending ==
    [][resetRace =>
          /\ eliminatedIds' = <<>>
          /\ winOrder' = EmptyMap
          /\ rafQueue' = {}
          /\ timers' = <<>>]_vars

\* ------------------------------------------- claims on the winner report
\* C27: a step that reports a winner appends exactly one id w to
\* eliminatedIds, ranks w as (number already ranked) + 1, hides the race and
\* leaves entries, groups and the other ranks as they were; w is in the
\* roster, was not eliminated or ranked before, and took part in the race
\* that reported it when a race was on screen.
C27_WinnerReportEffect ==
    [][Len(eliminatedIds') > Len(eliminatedIds) =>
          \E w \in Range(entries) :
              /\ eliminatedIds' = Append(eliminatedIds, w)
              /\ winOrder' = MapSet(winOrder, w, Cardinality(DOMAIN winOrder) + 1)
              /\ ~showRace'
              /\ entries' = entries
              /\ groups' = groups
              /\ w \notin Range(eliminatedIds)
              /\ w \notin DOMAIN winOrder
              /\ showRace => \E i \in DOMAIN racers : racers[i].entry = w]_vars

\* ------------------------------------------- claims on the start of a race
\* C28: in the state a race starts in (racing, clock at 0) every active
\* participant has a fresh racer on the start line in its roster lane, not
\* finished and not knocked out, and there is no obstacle and no bird.
C28_RaceStartsFresh ==
    (variant = "hazard" /\ raceState = "racing" /\ elapsed = 0) =>
        /\ racers = NewRacers("hazard", activeEntries(entries, eliminatedIds), entries)
        /\ \A i \in DOMAIN racers :
              /\ racers[i].y = START_LINE * Scale
              /\ ~racers[i].finished
              /\ ~racers[i].knockedOut
        /\ obstacles = <<>>
        /\ birds = <<>>

\* the start of the second race of a tournament of three, begun while the
\* frame loop of a race was still running
C28_Witness ==
    /\ variant = "hazard"
    /\ raceState = "racing"
    /\ elapsed = 0
    /\ Len(entries) = 3
    /\ Len(racers) = 2
    /\ winOrder # EmptyMap
    /\ cancelled

\* ------------------------------------------- claims on obstacles and birds
\* A tournament of six after four races, the track newly mounted: the state
\* the App is in when four winners were reported and the roster was edited
\* back to its six entries (handleEntriesChange remounts RacingGame and
\* keeps the ranks of the entries that stay).
InitLateTournament ==
    /\ entries = <<1, 2, 3, 4, 5, 6>>
    /\ eliminatedIds = <<1, 2, 3, 4>>
    /\ winOrder = [id \in 1..4 |-> id]
    /\ winner = 4
    /\ showRace = FALSE
    /\ racingMode = "car"
    /\ timers = <<>>
    /\ groups = <<>>
    /\ showManagementModal = FALSE
    /\ now = Len(entries)
    /\ names = [id \in Range(entries) |-> StoredName]
    /\ alerted = NoAlert
    /\ variant = "hazard"
    /\ racers = NewRacers("hazard", activeEntries(entries, eliminatedIds), entries)
    /\ raceState = "ready"
    /\ racerSpeedProfiles = <<>>
    /\ elapsed = 0
    /\ finished = FALSE
    /\ hasFalling = FALSE
    /\ rafQueue = {}
    /\ animationRef = 0
    /\ obstacles = <<>>
    /\ birds = <<>>
    /\ drifts = 0
    /\ spawns = 0
    /\ reported = <<>>
    /\ cancelled = FALSE
    /\ knocks = {}

NextLateTournament ==
    \/ startRace
    \/ handleRaceComplete
    \/ timerFires
    \/ animateHazard

\* tournaments from their first race, and the late tournament of six
SpecLateTournament ==
    (InitHazard \/ InitLateTournament) /\ [][NextLateTournament]_vars

\* the participants ranked before the race on the track started
RankedAtStart == DOMAIN winOrder \ Range(reported)

\* C29: while a race is on the track or has just ended, an obstacle exists
\* only if at least a third of the roster (rounded up) was ranked before the
\* race started, a bird only if at least two thirds (rounded up) were, and
\* there are at most 7 birds.
C29_HazardsGated ==
    (variant = "hazard" /\ raceState \in {"racing", "finished"}) =>
        /\ obstacles # <<>> => 3 * Cardinality(RankedAtStart) >= Len(entries)
        /\ birds # <<>> => 3 * Cardinality(RankedAtStart) >= 2 * Len(entries)
        /\ Len(birds) <= 7

\* a frame that found seven birds over the track and added none
C29_Witness ==
    /\ variant = "hazard"
    /\ raceState = "racing"
    /\ Len(birds) = 7
    /\ elapsed >= 4000
    /\ 3 * Cardinality(RankedAtStart) >= 2 * Len(entries)

\* ------------------------------------------- claims on the lateral drift
\* C30: every racer's lateralPos lies in [0, laneCount - 1]; a frame gives a
\* racer a new lateral target only when its last move is over (no duration,
\* or the duration has passed at that frame), and the target is a whole lane
\* in [0, laneCount - 1] at most one lane from the rounded lateralPos the
\* racer had before the frame.
C30_LateralMovesStepwise ==
    /\ [](variant = "hazard" =>
             \A i \in DOMAIN racers :
                 /\ racers[i].lateralPos >= 0
                 /\ racers[i].lateralPos <= (Max(Len(entries), 2) - 1) * LatScale)
    /\ [][Tick =>
             \A i \in DOMAIN racers \cap DOMAIN racers' :
                 racers'[i].lateralStartTime # racers[i].lateralStartTime =>
                     LET lane == racers'[i].lateralTarget \div LatScale
                     IN  /\ \/ racers[i].lateralDuration <= 0
                            \/ elapsed' - racers[i].lateralStartTime >= racers[i].lateralDuration
                         /\ racers'[i].lateralTarget = lane * LatScale
                         /\ lane \in 0..(Max(Len(entries), 2) - 1)
                         /\ Abs(lane - RoundLane(racers[i].lateralPos)) <= 1]_vars

\* a racer on its second lateral move, part of the way, the others never moved
C30_Witness ==
    /\ variant = "hazard"
    /\ raceState = "racing"
    /\ drifts = 2
    /\ \E i \in DOMAIN racers :
          /\ racers[i].lateralDuration > 0
          /\ elapsed > racers[i].lateralStartTime
          /\ elapsed - racers[i].lateralStartTime < racers[i].lateralDuration
          /\ racers[i].lateralPos # racers[i].lateralTarget
          /\ racers[i].lateralPos # racers[i].lateralStartPos
          /\ \A j \in DOMAIN racers \ {i} : racers[j].lateralDuration = 0

\* ------------------------------------------- claims on the App's bookkeeping
\* C31: every eliminated id and every ranked id is the id of an entry of the
\* roster, and the eliminated ids are exactly the ranked ids.
C31_EliminatedAndRankedInRoster ==
    /\ Range(eliminatedIds) \subseteq Range(entries)
    /\ DOMAIN winOrder \subseteq Range(entries)
    /\ Range(eliminatedIds) = DOMAIN winOrder

\* C32: eliminatedIds never holds the same id twice, and a step never changes
\* the rank of a participant that is ranked before and after it (a reset
\* removes the ranks).
C32_EliminatedOnce ==
    /\ [](\A i, j \in DOMAIN eliminatedIds : eliminatedIds[i] = eliminatedIds[j] => i = j)
    /\ [][\A id \in DOMAIN winOrder \cap DOMAIN winOrder' : winOrder'[id] = winOrder[id]]_vars

\* ------------------------------------------- claims on the winner
\* the time a profile needs for the whole track, in 1/Scale s
FinishTime(speeds) == TimeToEndOf(speeds, Len(speeds), TRACK_LENGTH)

\* C33: the racer a frame reports as winner has a speed profile that reaches
\* the finish line no later than the profile of any other racer of the race
\* that is not knocked out.
C33_FastestProfileWins ==
    [][(reported = <<>> /\ reported' # <<>>) =>
          \A i, j \in DOMAIN racers :
              (/\ racers[i].entry = reported'[1]
               /\ variant = "hazard" => ~racers'[j].knockedOut)
                  => FinishTime(racerSpeedProfiles[i]) <= FinishTime(racerSpeedProfiles[j])]_vars

\* ------------------------------------------- claims on the collision pass
\* the racers that were neither knocked out nor finished when the pairwise
\* pass of the last frame began
ActiveAtStartOfPass ==
    {i \in DOMAIN racers : ~StartOfPass[i].knockedOut /\ ~StartOfPass[i].finished}

\* the entries the pairwise pass of the last frame knocked out
CollisionKnocked == {k.out : k \in {e \in knocks : e.kind = "collision"}}

\* C34: after a frame whose pairwise pass knocked racers out, one of the
\* racers that were active when the pass began and closest to the finish
\* (least y) among them was not knocked out by the pass; a frame that leaves
\* every racer knocked out has knocked one out by an obstacle or a bird.
C34_CollisionsSpareALeader ==
    /\ []((variant = "hazard" /\ CollisionKnocked # {}) =>
             \E i \in ActiveAtStartOfPass :
                 /\ racers[i].entry \notin CollisionKnocked
                 /\ \A j \in ActiveAtStartOfPass : racers[i].y <= racers[j].y)
    /\ [][(Tick /\ ~AllKnockedOut /\ AllKnockedOut') =>
             \E k \in knocks' : k.kind = "hazard"]_vars

\* a pass over three active racers that knocked out two of them
C34_Witness ==
    /\ variant = "hazard"
    /\ Cardinality(ActiveAtStartOfPass) = 3
    /\ Cardinality(CollisionKnocked) = 2
    /\ \E i \in DOMAIN racers : ~racers[i].knockedOut

====
